---- MODULE Spec2Model ----
(***************************************************************************)
(* Model of src/lib/supabase.ts: the session cache kept in localStorage    *)
(* (sessionManager), the auth facade built on the Supabase client          *)
(* (authService) and the auth state listener.                              *)
(*                                                                         *)
(* JavaScript values are modelled as follows.                              *)
(*   - An object is a record whose DOMAIN is the set of its properties     *)
(*     that are not undefined: reading a property outside the DOMAIN       *)
(*     yields undefined.                                                   *)
(*   - "T | null" is a sequence: << >> is null, <<v>> is the value v.      *)
(*   - A string kept in localStorage is a record: [json |-> o] is the      *)
(*     JSON text JSON.stringify produces for the object o, [raw |-> t] is  *)
(*     a text JSON.parse rejects.                                          *)
(*   - Date.now() is the variable now, in milliseconds.                    *)
(***************************************************************************)
EXTENDS Integers, Sequences, FiniteSets, TLC

(***************************************************************************)
(* Bounds of the model.                                                    *)
(***************************************************************************)
\* number of facade calls that can be in flight at the same time
NumProcs == 2
\* how many times the clock advances
MaxTicks == 1
\* largest expiry timestamp (epoch seconds) a session carries
MaxExpiry == 2

(***************************************************************************)
(* Constants of the program and of its clock.                              *)
(***************************************************************************)
\* Date.now() / 1000: milliseconds per second of expires_at
MsPerSecond == 1000
\* Date.now() when the module is loaded, and the step of the clock
StartMs == 1000
TickMs == 500

Procs == 1..NumProcs
Times == {StartMs + k * TickMs : k \in 0..MaxTicks}

(***************************************************************************)
(* JavaScript objects.                                                     *)
(***************************************************************************)
NoProps == [k \in {} |-> 0]
Null == << >>
Some(v) == <<v>>
Opt(S) == {Null} \cup {Some(v) : v \in S}
\* the property k with the value held by opt, no property when opt is null
Prop(k, opt) == IF opt = Null THEN NoProps ELSE k :> opt[1]
Has(o, k) == k \in DOMAIN o
\* o[k] as an optional value
Get(o, k) == IF Has(o, k) THEN Some(o[k]) ELSE Null

Users == {"u1", "u2"}
AccessTokens == {"a1", "a2"}
\* the identity service issues each access token to one user
Accounts == {<<"u1", "a1">>, <<"u2", "a2">>}
RefreshTokens == {"r1"}
Expiries == 0..MaxExpiry

\* a session object with the given optional fields
MkSession(u, a, r, e, d, t) ==
    Prop("user", u) @@ Prop("access_token", a) @@ Prop("refresh_token", r)
      @@ Prop("expires_at", e) @@ Prop("expires_in", d) @@ Prop("token_type", t)

\* the fields saveSession copies
SessionFields ==
    {"user", "access_token", "refresh_token", "expires_at", "expires_in", "token_type"}

\* o restricted to the properties in ks
Pick(o, ks) == [k \in (DOMAIN o) \cap ks |-> o[k]]

\* JavaScript truthiness of o[k]: undefined is falsy, and so are the empty
\* string and the number 0
TruthyText(o, k) == Has(o, k) /\ o[k] # ""
TruthyNumber(o, k) == Has(o, k) /\ o[k] # 0

(***************************************************************************)
(* localStorage: four slots, each null or a string.                        *)
(***************************************************************************)
JSONstringify(o) == [json |-> o]
JSONparses(text) == Has(text, "json")
JSONparse(text) == text.json
\* Date.now().toString(), and the literal 'true'
NumberToString(n) == [digits |-> n]
TrueText == [raw |-> "true"]

EmptyStorage == [session |-> Null, auth |-> Null, timestamp |-> Null, active |-> Null]

setItem(st, key, text) == [st EXCEPT ![key] = Some(text)]
removeItem(st, key) == [st EXCEPT ![key] = Null]
getItem(st, key) == st[key]

(***************************************************************************)
(* sessionManager: the session cache.                                      *)
(***************************************************************************)
\* sessionData without refresh_token
sessionDataNoRefresh(session, t) ==
    Pick(session, SessionFields \ {"refresh_token"}) @@ ("saved_at" :> t)

\* the object saveSession serializes: the six session fields and saved_at
sessionData(session, t) == Pick(session, SessionFields) @@ ("saved_at" :> t)

\* saveSession(session) at time t. win: typeof window !== 'undefined'.
\* fault: which of the three setItem calls throws (0: none); what was
\* written before it stays, the exception is caught and logged.
saveSession(st, win, session, t, fault) ==
    IF win /\ session # Null
    THEN LET s1 == setItem(st, "session", JSONstringify(sessionData(session[1], t)))
             s2 == setItem(s1, "timestamp", NumberToString(t))
             s3 == setItem(s2, "active", TrueText)
         IN  CASE fault = 0 -> s3
               [] fault = 1 -> st
               [] fault = 2 -> s1
               [] OTHER     -> s2
    ELSE st

\* clearSession()
clearSession(st, win) ==
    IF win
    THEN removeItem(removeItem(removeItem(removeItem(st,
             "session"), "auth"), "timestamp"), "active")
    ELSE st

\* the structure check without the access token
InvalidStructureUserOnly(session) == ~TruthyText(session, "user")

\* if (!session.user || !session.access_token)
InvalidStructure(session) ==
    ~TruthyText(session, "user") \/ ~TruthyText(session, "access_token")

\* if (session.expires_at && Date.now() / 1000 > session.expires_at)
IsExpired(session, t) ==
    TruthyNumber(session, "expires_at") /\ t > session.expires_at * MsPerSecond

\* getStoredSession that returns null for an expired record and keeps it
getStoredSessionKeepsExpired(st, win, t) ==
    IF ~win THEN [ret |-> Null, st |-> st]
    ELSE LET stored == getItem(st, "session") IN
         IF stored = Null THEN [ret |-> Null, st |-> st]
         ELSE IF ~JSONparses(stored[1])
              THEN [ret |-> Null, st |-> clearSession(st, win)]
         ELSE LET session == JSONparse(stored[1]) IN
              IF InvalidStructure(session)
              THEN [ret |-> Null, st |-> clearSession(st, win)]
              ELSE IF IsExpired(session, t)
              THEN [ret |-> Null, st |-> st]
              ELSE [ret |-> Some(session), st |-> st]

\* getStoredSession() at time t: the value returned and the storage left
getStoredSession(st, win, t) ==
    IF ~win THEN [ret |-> Null, st |-> st]
    ELSE LET stored == getItem(st, "session") IN
         IF stored = Null THEN [ret |-> Null, st |-> st]
         ELSE IF ~JSONparses(stored[1])
              THEN [ret |-> Null, st |-> clearSession(st, win)]
         ELSE LET session == JSONparse(stored[1]) IN
              IF InvalidStructure(session)
              THEN [ret |-> Null, st |-> clearSession(st, win)]
              ELSE IF IsExpired(session, t)
              THEN [ret |-> Null, st |-> clearSession(st, win)]
              ELSE [ret |-> Some(session), st |-> st]

\* isFreshSession that looks for the session record instead of the flag
isFreshSessionReadsRecord(st, win) ==
    IF ~win THEN FALSE ELSE getItem(st, "session") = Null

\* isFreshSession()
isFreshSession(st, win) == IF ~win THEN FALSE ELSE getItem(st, "active") = Null

\* markSessionActive()
markSessionActive(st, win) == IF win THEN setItem(st, "active", TrueText) ELSE st

(***************************************************************************)
(* The identity service and the callers: the values they can hand over.    *)
(***************************************************************************)
\* a session as the identity service issues it at time t: user, access token
\* and expiry present, the expiry not before t
ServiceSessions(t) ==
    { MkSession(Some(ua[1]), Some(ua[2]), r, Some(e), Some(3600), Some("bearer")) :
        ua \in Accounts, r \in Opt(RefreshTokens),
        e \in {x \in Expiries : x * MsPerSecond >= t} }

\* the objects a caller can pass to saveSession, or a foreign writer can have
\* left in the session slot: user and access token may be missing, any expiry,
\* the other fields all there or (always so without user or token) all missing
AnyObjects ==
    { o \in { MkSession(u, a, d[1], e, d[2], d[3]) :
                u \in Opt({"u1"}), a \in Opt({"a1"}), e \in Opt(Expiries),
                d \in {<<Null, Null, Null>>, <<Some("r1"), Some(3600), Some("bearer")>>} } :
        Has(o, "refresh_token") => (Has(o, "user") /\ Has(o, "access_token")) }

\* the errors the identity service reports or throws
AuthErrors == {"AuthApiError"}
NetworkErrors == {"TypeError: Failed to fetch"}

(***************************************************************************)
(* State.                                                                  *)
(***************************************************************************)
VARIABLES
    storage,   \* localStorage: the four slots
    window,    \* typeof window !== 'undefined'
    quota,     \* localStorage.setItem can throw (storage full)
    overlap,   \* callers start a facade call while another one is pending
    now,       \* Date.now()
    pc,        \* per call slot: the await the call is suspended at, or "idle"
    stored,    \* per call slot: storedSession of initializeSession
    stale,     \* the call slots that were suspended when a signOut returned
    last       \* the step just taken: operation, inputs, result

vars == <<storage, window, quota, overlap, now, pc, stored, stale, last>>

\* the shape of a record of the last step
\* what the session slot holds at time t, in the words of the specification
CacheKind(st, t) ==
    IF st.session = Null THEN "empty"
    ELSE IF ~Has(st.session[1], "json") THEN "unparseable"
    ELSE LET o == st.session[1].json IN
         IF ~Has(o, "user") \/ ~Has(o, "access_token") THEN "incomplete"
         ELSE IF Has(o, "expires_at") /\ o.expires_at * MsPerSecond < t THEN "expired"
         ELSE "usable"

\* the record of a step: the operation, how the awaited call ended ("call"
\* when the step sends the request), what the session slot held before the
\* step, the argument or request, the response, and the value returned
Event(op, out, before, arg, resp, ret) ==
    [op |-> op, out |-> out, before |-> before, arg |-> arg, resp |-> resp, ret |-> ret]
Nothing == [none |-> TRUE]
NoEvent == Event("none", "none", "", Nothing, Nothing, Nothing)

\* which setItem a saveSession call can fail at
Faults == IF quota THEN 0..3 ELSE {0}

\* what a page finds in localStorage when the module is loaded: nothing, or
\* what an earlier page or a foreign writer left: a session slot that does not
\* parse, beside the SDK's own item (a record an earlier page saved is the
\* same as one SaveSession writes)
InitStorages ==
    { EmptyStorage,
      [session |-> Some([raw |-> "not json"]), auth |-> Some([raw |-> "sdk"]),
       timestamp |-> Some(NumberToString(StartMs)), active |-> Some(TrueText)] }

InitRest ==
    /\ now = StartMs
    /\ pc = [p \in Procs |-> "idle"]
    /\ stored = [p \in Procs |-> Null]
    /\ stale = {}
    /\ last = NoEvent

\* a browser page whose storage accepts every write and whose callers await
\* each facade call before they start the next one; the listener and the
\* synchronous cache functions run at any time
Init ==
    /\ window = TRUE
    /\ quota = FALSE
    /\ overlap = FALSE
    /\ storage \in InitStorages
    /\ InitRest

(***************************************************************************)
(* The clock.                                                              *)
(***************************************************************************)
Tick ==
    /\ now + TickMs \in Times
    /\ now' = now + TickMs
    /\ last' = NoEvent
    /\ UNCHANGED <<storage, window, quota, overlap, pc, stored, stale>>

(***************************************************************************)
(* Direct calls of the session cache.                                      *)
(***************************************************************************)
SaveSession ==
    \E session \in Opt(AnyObjects \cup ServiceSessions(now)), fault \in Faults :
        /\ storage' = saveSession(storage, window, session, now, fault)
        /\ last' = Event("saveSession", IF fault = 0 THEN "ok" ELSE "fault", "",
                         [session |-> session], Nothing, Nothing)
        /\ UNCHANGED <<window, quota, overlap, now, pc, stored, stale>>

GetStoredSession ==
    LET r == getStoredSession(storage, window, now) IN
        /\ storage' = r.st
        /\ last' = Event("getStoredSession", "ok", CacheKind(storage, now),
                         Nothing, Nothing, [session |-> r.ret])
        /\ UNCHANGED <<window, quota, overlap, now, pc, stored, stale>>

ClearSession ==
    /\ storage' = clearSession(storage, window)
    /\ last' = Event("clearSession", "ok", "", Nothing, Nothing, Nothing)
    /\ UNCHANGED <<window, quota, overlap, now, pc, stored, stale>>

IsFreshSession ==
    /\ last' = Event("isFreshSession", "ok", "", Nothing, Nothing,
                     [bool |-> isFreshSession(storage, window)])
    /\ UNCHANGED <<storage, window, quota, overlap, now, pc, stored, stale>>

MarkSessionActive ==
    /\ storage' = markSessionActive(storage, window)
    /\ last' = Event("markSessionActive", "ok", "", Nothing, Nothing, Nothing)
    /\ UNCHANGED <<window, quota, overlap, now, pc, stored, stale>>

(***************************************************************************)
(* Responses of the identity service. Every call resolves with a result    *)
(* envelope {data, error} (out "ok" or "error") or throws (out "throw").   *)
(***************************************************************************)
Failures ==
    {[out |-> "error", error |-> e] : e \in AuthErrors} \cup
    {[out |-> "throw", error |-> e] : e \in NetworkErrors}

Ok(data) == [out |-> "ok", data |-> data]

\* getSession, refreshSession: data.session
SessionResponses(t) ==
    {Ok([session |-> s]) : s \in Opt(ServiceSessions(t))} \cup Failures

\* signUp, signInWithPassword: data.user and data.session
AuthResponses(t) ==
    {Ok([user |-> Get(s, "user"), session |-> Some(s)]) : s \in ServiceSessions(t)}
      \cup {Ok([user |-> u, session |-> Null]) : u \in Opt(Users)} \cup Failures

\* getUser, updateUser: data.user
UserResponses == {Ok([user |-> u]) : u \in Opt(Users)} \cup Failures

\* signOut, resetPasswordForEmail: nothing but the error
VoidResponses == {Ok(Nothing)} \cup Failures

Threw(e) == [threw |-> e]
Result(st, ret) == [st |-> st, ret |-> ret]

(***************************************************************************)
(* authService and the asynchronous part of sessionManager: what each      *)
(* function does once the awaited call has resolved with resp.             *)
(***************************************************************************)
\* signUp that does not save the session
signUpNoSave(st, win, t, resp, fault) ==
    IF resp.out # "ok" THEN Result(st, Threw(resp.error))
    ELSE Result(st, [data |-> resp.data])

\* signUp and signIn after the await: throw the error, else save data.session
signUpThen(st, win, t, resp, fault) ==
    IF resp.out # "ok" THEN Result(st, Threw(resp.error))
    ELSE Result(IF resp.data.session # Null
                THEN saveSession(st, win, resp.data.session, t, fault) ELSE st,
                [data |-> resp.data])

signInThen(st, win, t, resp, fault) ==
    IF resp.out # "ok" THEN Result(st, Threw(resp.error))
    ELSE Result(IF resp.data.session # Null
                THEN saveSession(st, win, resp.data.session, t, fault) ELSE st,
                [data |-> resp.data])

\* signOut whose catch block does not clear
signOutNoClearInCatch(st, win, resp) ==
    IF resp.out = "throw" THEN Result(st, Nothing)
    ELSE Result(clearSession(st, win), Nothing)

\* signOut after the await: clear whatever the outcome, never throw
signOutThen(st, win, resp) == Result(clearSession(st, win), Nothing)

\* storedSession?.user || null
storedUser(loaded) == IF loaded = Null THEN Null ELSE Get(loaded[1], "user")

\* getCurrentUser that falls back to the cache only on an error result
getCurrentUserRethrows(st, win, t, resp) ==
    CASE resp.out = "ok" -> Result(st, [user |-> resp.data.user])
      [] resp.out = "throw" -> Result(st, Threw(resp.error))
      [] OTHER -> LET r == getStoredSession(st, win, t) IN
                  Result(r.st, [user |-> storedUser(r.ret)])

\* getCurrentUser after the await
getCurrentUserThen(st, win, t, resp) ==
    IF resp.out = "ok" THEN Result(st, [user |-> resp.data.user])
    ELSE LET r == getStoredSession(st, win, t) IN
         Result(r.st, [user |-> storedUser(r.ret)])

\* the update of the stored session without storedSession.user = data.user
mergeUserKeepsUser(st, win, t, user, fault) ==
    LET r == getStoredSession(st, win, t) IN
    IF r.ret = Null THEN r.st ELSE saveSession(r.st, win, r.ret, t, fault)

\* "Update stored session": storedSession.user = data.user; saveSession(...)
mergeUser(st, win, t, user, fault) ==
    LET r == getStoredSession(st, win, t) IN
    IF r.ret = Null THEN r.st
    ELSE saveSession(r.st, win, Some([r.ret[1] EXCEPT !.user = user]), t, fault)

\* updateProfile that reads the stored session before it tests the error
updateProfileLoadsFirst(st, win, t, resp, fault) ==
    LET r == getStoredSession(st, win, t) IN
    IF resp.out # "ok" THEN Result(r.st, Threw(resp.error))
    ELSE Result(IF resp.data.user # Null
                THEN mergeUser(st, win, t, resp.data.user[1], fault) ELSE st,
                [data |-> resp.data])

\* updateProfile (either branch) after the await
updateProfileThen(st, win, t, resp, fault) ==
    IF resp.out # "ok" THEN Result(st, Threw(resp.error))
    ELSE Result(IF resp.data.user # Null
                THEN mergeUser(st, win, t, resp.data.user[1], fault) ELSE st,
                [data |-> resp.data])

\* updatePassword after the await
updatePasswordThen(st, win, t, resp, fault) ==
    IF resp.out # "ok" THEN Result(st, Threw(resp.error))
    ELSE Result(IF resp.data.user # Null
                THEN mergeUser(st, win, t, resp.data.user[1], fault) ELSE st,
                [data |-> resp.data])

\* resetPassword after the await
resetPasswordThen(st, resp) ==
    IF resp.out # "ok" THEN Result(st, Threw(resp.error))
    ELSE Result(st, [data |-> resp.data])

\* isAuthenticated that falls back to the cache on an error result too
isAuthenticatedFallsBackOnError(st, win, t, resp) ==
    IF resp.out = "ok"
    THEN Result(st, [bool |-> resp.data.session # Null
                                /\ TruthyText(resp.data.session[1], "user")])
    ELSE LET r == getStoredSession(st, win, t) IN
         Result(r.st, [bool |-> r.ret # Null /\ TruthyText(r.ret[1], "user")])

\* isAuthenticated after the await
isAuthenticatedThen(st, win, t, resp) ==
    CASE resp.out = "error" -> Result(st, [bool |-> FALSE])
      [] resp.out = "ok" ->
           Result(st, [bool |-> resp.data.session # Null
                                  /\ TruthyText(resp.data.session[1], "user")])
      [] OTHER ->
           LET r == getStoredSession(st, win, t) IN
           Result(r.st, [bool |-> r.ret # Null /\ TruthyText(r.ret[1], "user")])

\* if (storedSession && storedSession.refresh_token)
wantsRefresh(loaded) == loaded # Null /\ TruthyText(loaded[1], "refresh_token")

\* initializeSession that returns nothing on an error result of getSession
getSessionThenNoFallback(st, win, t, resp, fault) ==
    CASE resp.out = "error" ->
           [st |-> st, ret |-> [session |-> Null], refresh |-> Null]
      [] resp.out = "throw" ->
           LET r == getStoredSession(st, win, t) IN
           [st |-> IF r.ret # Null THEN r.st ELSE clearSession(r.st, win),
            ret |-> [session |-> r.ret], refresh |-> Null]
      [] OTHER ->
           IF resp.data.session # Null
           THEN [st |-> saveSession(st, win, resp.data.session, t, fault),
                 ret |-> [session |-> resp.data.session], refresh |-> Null]
           ELSE LET r == getStoredSession(st, win, t) IN
                IF wantsRefresh(r.ret)
                THEN [st |-> r.st, ret |-> [pending |-> TRUE], refresh |-> r.ret]
                ELSE [st |-> r.st, ret |-> [session |-> Null], refresh |-> Null]

\* initializeSession after getSession has resolved. refresh: the stored
\* session a refresh is started for (then nothing is returned yet)
getSessionThen(st, win, t, resp, fault) ==
    CASE resp.out = "error" ->
           LET r == getStoredSession(st, win, t) IN
           [st |-> r.st, ret |-> [session |-> r.ret], refresh |-> Null]
      [] resp.out = "throw" ->
           LET r == getStoredSession(st, win, t) IN
           [st |-> IF r.ret # Null THEN r.st ELSE clearSession(r.st, win),
            ret |-> [session |-> r.ret], refresh |-> Null]
      [] OTHER ->
           IF resp.data.session # Null
           THEN [st |-> saveSession(st, win, resp.data.session, t, fault),
                 ret |-> [session |-> resp.data.session], refresh |-> Null]
           ELSE LET r == getStoredSession(st, win, t) IN
                IF wantsRefresh(r.ret)
                THEN [st |-> r.st, ret |-> [pending |-> TRUE], refresh |-> r.ret]
                ELSE [st |-> r.st, ret |-> [session |-> Null], refresh |-> Null]

\* initializeSession that clears the cache on every failed refresh
refreshClearsOnThrow(st, win, t, storedSession, resp, fault) ==
    CASE resp.out = "error" -> Result(clearSession(st, win), [session |-> Null])
      [] resp.out = "throw" -> Result(clearSession(st, win), [session |-> Null])
      [] OTHER ->
           IF resp.data.session # Null
           THEN Result(saveSession(st, win, resp.data.session, t, fault),
                       [session |-> resp.data.session])
           ELSE Result(st, [session |-> Null])

\* initializeSession after refreshSession has resolved
refreshThen(st, win, t, storedSession, resp, fault) ==
    CASE resp.out = "error" -> Result(clearSession(st, win), [session |-> Null])
      [] resp.out = "throw" -> Result(st, [session |-> storedSession])
      [] OTHER ->
           IF resp.data.session # Null
           THEN Result(saveSession(st, win, resp.data.session, t, fault),
                       [session |-> resp.data.session])
           ELSE Result(st, [session |-> Null])

\* the listener without the USER_UPDATED branch
onAuthStateChangeNoUserUpdated(st, win, t, event, session, fault) ==
    CASE event = "SIGNED_IN" /\ session # Null -> saveSession(st, win, session, t, fault)
      [] event = "SIGNED_OUT" -> clearSession(st, win)
      [] event = "TOKEN_REFRESHED" /\ session # Null -> saveSession(st, win, session, t, fault)
      [] OTHER -> st

\* the auth state listener
onAuthStateChange(st, win, t, event, session, fault) ==
    CASE event = "SIGNED_IN" /\ session # Null -> saveSession(st, win, session, t, fault)
      [] event = "SIGNED_OUT" -> clearSession(st, win)
      [] event = "TOKEN_REFRESHED" /\ session # Null -> saveSession(st, win, session, t, fault)
      [] event = "USER_UPDATED" /\ session # Null -> saveSession(st, win, session, t, fault)
      [] OTHER -> st

(***************************************************************************)
(* The requests the facade sends.                                          *)
(***************************************************************************)
\* an e-mail address is <<local part, domain>>: email.split('@')[0] is [1]
Emails == {<<"a", "example.com">>}
Passwords == {"pw"}
\* the passwords updateProfile and updatePassword are given
NewPasswords == {"", "pw2"}
FullNames == Opt({"Ann"})
DateToISOString(t) == [iso |-> t]

signUpRequest(email, password, fullName) ==
    [api |-> "signUp", email |-> email, password |-> password,
     full_name |-> IF fullName # Null /\ fullName[1] # "" THEN fullName[1] ELSE email[1]]

signInRequest(email, password) ==
    [api |-> "signInWithPassword", email |-> email, password |-> password]

\* the updates objects updateProfile is called with
Updates ==
    {[password |-> pw] : pw \in NewPasswords} \cup
    {[full_name |-> "Ann"], [data |-> [bio |-> "b"]], [password |-> "pw2", full_name |-> "Ann"]}

\* updateProfile: the argument of supabase.auth.updateUser
updateProfileRequest(updates, t) ==
    IF TruthyText(updates, "password")
    THEN [api |-> "updateUser", password |-> updates.password]
    ELSE LET updateData == IF Has(updates, "data") THEN updates.data ELSE updates IN
         [api |-> "updateUser",
          data |-> ("updated_at" :> DateToISOString(t)) @@ updateData]

\* updatePassword: the argument of supabase.auth.updateUser
updatePasswordRequest(newPassword) == [api |-> "updateUser", password |-> newPassword]

(***************************************************************************)
(* Calls of the facade: each runs up to its await (Call), is suspended     *)
(* while the identity service works, and runs to its end when the awaited  *)
(* call resolves (Return).                                                 *)
(***************************************************************************)
\* a call takes the first free call slot (the slots are interchangeable)
Free(p) ==
    /\ pc[p] = "idle"
    /\ \A q \in Procs : q < p => pc[q] # "idle"
    /\ overlap \/ \A q \in Procs : pc[q] = "idle"

\* call slot p sends the request of op and is suspended
Suspend(p, op, request) ==
    /\ pc' = [pc EXCEPT ![p] = op]
    /\ last' = Event(op, "call", "", request, Nothing, Nothing)
    /\ UNCHANGED <<storage, window, quota, overlap, now, stored, stale>>

\* call slot p finishes op with the result r, after api has answered resp
Finish(p, op, api, resp, r) ==
    /\ storage' = r.st
    /\ pc' = [pc EXCEPT ![p] = "idle"]
    /\ stored' = [stored EXCEPT ![p] = Null]
    /\ stale' = IF op = "signOut" THEN {q \in Procs \ {p} : pc[q] # "idle"}
                ELSE stale \ {p}
    /\ last' = Event(op, resp.out, CacheKind(storage, now), [api |-> api], resp, r.ret)
    /\ UNCHANGED <<window, quota, overlap, now>>

SignUpCall ==
    \E p \in Procs, email \in Emails, password \in Passwords, fullName \in FullNames :
        /\ Free(p)
        /\ Suspend(p, "signUp", signUpRequest(email, password, fullName))

SignUpReturn ==
    \E p \in Procs, resp \in AuthResponses(now), fault \in Faults :
        /\ pc[p] = "signUp"
        /\ Finish(p, "signUp", "signUp", resp, signUpThen(storage, window, now, resp, fault))

SignInCall ==
    \E p \in Procs, email \in Emails, password \in Passwords :
        /\ Free(p)
        /\ Suspend(p, "signIn", signInRequest(email, password))

SignInReturn ==
    \E p \in Procs, resp \in AuthResponses(now), fault \in Faults :
        /\ pc[p] = "signIn"
        /\ Finish(p, "signIn", "signInWithPassword", resp, signInThen(storage, window, now, resp, fault))

SignOutCall ==
    \E p \in Procs :
        /\ Free(p)
        /\ Suspend(p, "signOut", [api |-> "signOut"])

SignOutReturn ==
    \E p \in Procs, resp \in VoidResponses :
        /\ pc[p] = "signOut"
        /\ Finish(p, "signOut", "signOut", resp, signOutThen(storage, window, resp))

GetCurrentUserCall ==
    \E p \in Procs :
        /\ Free(p)
        /\ Suspend(p, "getCurrentUser", [api |-> "getUser"])

GetCurrentUserReturn ==
    \E p \in Procs, resp \in UserResponses :
        /\ pc[p] = "getCurrentUser"
        /\ Finish(p, "getCurrentUser", "getUser", resp, getCurrentUserThen(storage, window, now, resp))

UpdateProfileCall ==
    \E p \in Procs, updates \in Updates :
        /\ Free(p)
        /\ Suspend(p, "updateProfile", updateProfileRequest(updates, now))

UpdateProfileReturn ==
    \E p \in Procs, resp \in UserResponses, fault \in Faults :
        /\ pc[p] = "updateProfile"
        /\ Finish(p, "updateProfile", "updateUser", resp,
                  updateProfileThen(storage, window, now, resp, fault))

UpdatePasswordCall ==
    \E p \in Procs, newPassword \in NewPasswords :
        /\ Free(p)
        /\ Suspend(p, "updatePassword", updatePasswordRequest(newPassword))

UpdatePasswordReturn ==
    \E p \in Procs, resp \in UserResponses, fault \in Faults :
        /\ pc[p] = "updatePassword"
        /\ Finish(p, "updatePassword", "updateUser", resp,
                  updatePasswordThen(storage, window, now, resp, fault))

\* redirectTo reads window.location.origin before the request is sent
ResetPasswordCall ==
    \E p \in Procs, email \in Emails :
        /\ window
        /\ Free(p)
        /\ Suspend(p, "resetPassword", [api |-> "resetPasswordForEmail", email |-> email])

ResetPasswordReturn ==
    \E p \in Procs, resp \in VoidResponses :
        /\ pc[p] = "resetPassword"
        /\ Finish(p, "resetPassword", "resetPasswordForEmail", resp, resetPasswordThen(storage, resp))

IsAuthenticatedCall ==
    \E p \in Procs :
        /\ Free(p)
        /\ Suspend(p, "isAuthenticated", [api |-> "getSession"])

IsAuthenticatedReturn ==
    \E p \in Procs, resp \in SessionResponses(now) :
        /\ pc[p] = "isAuthenticated"
        /\ Finish(p, "isAuthenticated", "getSession", resp,
                  isAuthenticatedThen(storage, window, now, resp))

InitializeSessionCall ==
    \E p \in Procs :
        /\ Free(p)
        /\ Suspend(p, "initializeSession", [api |-> "getSession"])

\* getSession has resolved: initializeSession returns, or sends the refresh
\* request and is suspended again
InitializeSessionGotSession ==
    \E p \in Procs, resp \in SessionResponses(now), fault \in Faults :
        /\ pc[p] = "initializeSession"
        /\ LET r == getSessionThen(storage, window, now, resp, fault) IN
           IF r.refresh = Null
           THEN Finish(p, "initializeSession", "getSession", resp, r)
           ELSE /\ storage' = r.st
                /\ pc' = [pc EXCEPT ![p] = "refreshSession"]
                /\ stored' = [stored EXCEPT ![p] = r.refresh]
                /\ last' = Event("initializeSession", resp.out, CacheKind(storage, now),
                                 [api |-> "getSession"], resp, r.ret)
                /\ UNCHANGED <<window, quota, overlap, now, stale>>

InitializeSessionReturn ==
    \E p \in Procs, resp \in SessionResponses(now), fault \in Faults :
        /\ pc[p] = "refreshSession"
        /\ Finish(p, "initializeSession", "refreshSession", resp,
                  refreshThen(storage, window, now, stored[p], resp, fault))

(***************************************************************************)
(* The identity service notifies the listener.                             *)
(***************************************************************************)
AuthEvents ==
    {"INITIAL_SESSION", "SIGNED_IN", "SIGNED_OUT", "TOKEN_REFRESHED", "USER_UPDATED"}

\* the listener is installed only where window is defined
Notify(event, session, fault) ==
    /\ window
    /\ storage' = onAuthStateChange(storage, window, now, event, session, fault)
    /\ last' = Event("onAuthStateChange", IF fault = 0 THEN "ok" ELSE "fault", "",
                     [event |-> event, session |-> session], Nothing, Nothing)
    /\ UNCHANGED <<window, quota, overlap, now, pc, stored, stale>>

\* the sessions a notification of the event can carry: none when signed out,
\* the session of the first account at the start of the page (the listener
\* does not look at it), any session otherwise
EventSessions(event, t) ==
    CASE event = "SIGNED_OUT" -> {Null}
      [] event = "INITIAL_SESSION" ->
           Opt({s \in ServiceSessions(t) :
                  s.user = "u1" /\ ~Has(s, "refresh_token") /\ s.expires_at = MaxExpiry})
      [] OTHER -> Opt(ServiceSessions(t))

AuthStateChange ==
    \E event \in AuthEvents, fault \in Faults :
        \E session \in EventSessions(event, now) : Notify(event, session, fault)

Next ==
    \/ Tick
    \/ SaveSession
    \/ GetStoredSession
    \/ ClearSession
    \/ IsFreshSession
    \/ MarkSessionActive
    \/ SignUpCall
    \/ SignUpReturn
    \/ SignInCall
    \/ SignInReturn
    \/ SignOutCall
    \/ SignOutReturn
    \/ GetCurrentUserCall
    \/ GetCurrentUserReturn
    \/ UpdateProfileCall
    \/ UpdateProfileReturn
    \/ UpdatePasswordCall
    \/ UpdatePasswordReturn
    \/ ResetPasswordCall
    \/ ResetPasswordReturn
    \/ IsAuthenticatedCall
    \/ IsAuthenticatedReturn
    \/ InitializeSessionCall
    \/ InitializeSessionGotSession
    \/ InitializeSessionReturn
    \/ AuthStateChange

Spec == Init /\ [][Next]_vars

(***************************************************************************)
(* The same page on a storage that is full: from empty storage, any        *)
(* setItem call can throw QuotaExceededError.                              *)
(***************************************************************************)
InitFaulty ==
    /\ window = TRUE
    /\ quota = TRUE
    /\ overlap = FALSE
    /\ storage = EmptyStorage
    /\ InitRest

\* the calls that write the cache, the calls that read or clear it
NextFaulty ==
    \/ SaveSession
    \/ GetStoredSession
    \/ ClearSession
    \/ IsFreshSession
    \/ MarkSessionActive
    \/ SignInCall
    \/ SignInReturn
    \/ SignOutCall
    \/ SignOutReturn
    \/ AuthStateChange

SpecFaulty == InitFaulty /\ [][NextFaulty]_vars

(***************************************************************************)
(* The application alone: from empty storage, the cache is written by the  *)
(* facade and the listener only, with sessions the identity service        *)
(* issued; nobody calls saveSession with an object of its own.             *)
(***************************************************************************)
InitApp ==
    /\ window = TRUE
    /\ quota = FALSE
    /\ overlap = FALSE
    /\ storage = EmptyStorage
    /\ InitRest

NextApp ==
    \/ Tick
    \/ GetStoredSession
    \/ ClearSession
    \/ IsFreshSession
    \/ MarkSessionActive
    \/ SignUpCall
    \/ SignUpReturn
    \/ SignInCall
    \/ SignInReturn
    \/ SignOutCall
    \/ SignOutReturn
    \/ GetCurrentUserCall
    \/ GetCurrentUserReturn
    \/ UpdateProfileCall
    \/ UpdateProfileReturn
    \/ UpdatePasswordCall
    \/ UpdatePasswordReturn
    \/ ResetPasswordCall
    \/ ResetPasswordReturn
    \/ IsAuthenticatedCall
    \/ IsAuthenticatedReturn
    \/ InitializeSessionCall
    \/ InitializeSessionGotSession
    \/ InitializeSessionReturn
    \/ AuthStateChange

SpecApp == InitApp /\ [][NextApp]_vars

(***************************************************************************)
(* Facade calls that overlap: a caller starts a call while another one is  *)
(* suspended at its await.                                                 *)
(***************************************************************************)
\* the identity service tells the listener that the user has signed out
SignedOut == \E fault \in Faults : Notify("SIGNED_OUT", Null, fault)

\* what an earlier page left in storage: nothing, or a session it saved
SavedStorages ==
    {EmptyStorage} \cup
    {saveSession(EmptyStorage, TRUE, Some(s), StartMs, 0) : s \in ServiceSessions(StartMs)}

\* initializeSession at the start of a page, while the user signs out
InitSignOutRace ==
    /\ window = TRUE
    /\ quota = FALSE
    /\ overlap = TRUE
    /\ storage \in SavedStorages
    /\ InitRest

NextSignOutRace ==
    \/ InitializeSessionCall
    \/ InitializeSessionGotSession
    \/ InitializeSessionReturn
    \/ SignOutCall
    \/ SignOutReturn
    \/ SignedOut

SpecSignOutRace == InitSignOutRace /\ [][NextSignOutRace]_vars

\* the calls that write the cache, and signOut, overlapping
InitRace ==
    /\ window = TRUE
    /\ quota = FALSE
    /\ overlap = TRUE
    /\ storage = EmptyStorage
    /\ InitRest

NextRace ==
    \/ SignUpCall
    \/ SignUpReturn
    \/ SignInCall
    \/ SignInReturn
    \/ UpdateProfileCall
    \/ UpdateProfileReturn
    \/ UpdatePasswordCall
    \/ UpdatePasswordReturn
    \/ InitializeSessionCall
    \/ InitializeSessionGotSession
    \/ InitializeSessionReturn
    \/ SignOutCall
    \/ SignOutReturn
    \/ SignedOut

SpecRace == InitRace /\ [][NextRace]_vars

(***************************************************************************)
(* Vocabulary of the properties.                                           *)
(***************************************************************************)
\* the step just taken is the end of the facade call op
Returned(op) == last.op = op /\ last.out \in {"ok", "error", "throw"}
\* the session record and the session-active flag are not in storage
CacheCleared(st) == st.session = Null /\ st.active = Null
\* load() in the state reached
Load == getStoredSession(storage, window, now)
\* the two objects agree on every session field, a missing field included
SameSessionFields(a, b) == \A k \in SessionFields : Get(a, k) = Get(b, k)
\* user and access token present, expiry not passed at time t
WellFormed(o, t) ==
    /\ Has(o, "user")
    /\ Has(o, "access_token")
    /\ Has(o, "expires_at") => o.expires_at * MsPerSecond >= t

(***************************************************************************)
(* C1: signOut() never rejects, and whether the external sign-out          *)
(* succeeds, returns an error or throws, neither the session record nor    *)
(* the session-active flag is in storage when signOut() returns.           *)
(***************************************************************************)
C1_SignOutClears ==
    Returned("signOut") => ~Has(last.ret, "threw") /\ CacheCleared(storage)

\* signOut has returned after the external call threw, with a record cached before
C1_Witness ==
    /\ Returned("signOut")
    /\ last.out = "throw"
    /\ last.before = "usable"
    /\ CacheCleared(storage)

(***************************************************************************)
(* C2: saving a well-formed session (user and access token present,        *)
(* expiry not passed) and loading at once returns a record with the same   *)
(* user, access token, refresh token, expiry timestamp, expiry duration    *)
(* and token type, and with a write timestamp.                             *)
(***************************************************************************)
C2_RoundTrip ==
    (/\ last.op = "saveSession"
     /\ last.arg.session # Null
     /\ WellFormed(last.arg.session[1], now))
    => /\ Load.ret # Null
       /\ SameSessionFields(Load.ret[1], last.arg.session[1])
       /\ Has(Load.ret[1], "saved_at")

\* a session with a refresh token and an expiry has been saved and loads
C2_Witness ==
    /\ last.op = "saveSession"
    /\ last.arg.session # Null
    /\ WellFormed(last.arg.session[1], now)
    /\ Has(last.arg.session[1], "refresh_token")
    /\ Has(last.arg.session[1], "expires_at")
    /\ Load.ret # Null

(***************************************************************************)
(* C3: for every stored record whose expiry timestamp is earlier than the  *)
(* current time, load() returns no session and removes the record.         *)
(***************************************************************************)
\* the session slot holds a record whose expires_at is before time t
PastExpiry(st, t) ==
    /\ st.session # Null
    /\ Has(st.session[1], "json")
    /\ Has(st.session[1].json, "expires_at")
    /\ st.session[1].json.expires_at * MsPerSecond < t

C3_ExpiredDiscarded ==
    [][(last'.op = "getStoredSession" /\ PastExpiry(storage, now))
         => (last'.ret.session = Null /\ storage'.session = Null)]_vars

(***************************************************************************)
(* C4: for every stored record that lacks a user or an access token,       *)
(* load() returns no session and clears storage, and no caller of load(),  *)
(* getCurrentUser(), isAuthenticated() or initializeSession() is handed    *)
(* such a record or anything read from it.                                 *)
(***************************************************************************)
\* the step taken ends a call that read the cache while it held an
\* incomplete record, and hands nothing of it to the caller
IncompleteNotExposed ==
    CASE last'.op = "getStoredSession" ->
           last'.ret.session = Null /\ storage' = EmptyStorage
      [] last'.op = "getCurrentUser" ->
           last'.out \in {"error", "throw"} => last'.ret = [user |-> Null]
      [] last'.op = "isAuthenticated" ->
           last'.out \in {"error", "throw"} => last'.ret = [bool |-> FALSE]
      [] last'.op = "initializeSession" ->
           (Has(last'.ret, "session") /\ last'.ret.session # Null)
             => (Has(last'.ret.session[1], "user")
                 /\ Has(last'.ret.session[1], "access_token"))
      [] OTHER -> TRUE

C4_IncompleteDiscarded ==
    [][CacheKind(storage, now) = "incomplete" => IncompleteNotExposed]_vars

\* load() has found an incomplete record and left storage empty
C4_Witness ==
    /\ last.op = "getStoredSession"
    /\ last.before = "incomplete"
    /\ last.ret.session = Null
    /\ storage = EmptyStorage

(***************************************************************************)
(* C5: getCurrentUser() never throws. When the external get-user call      *)
(* fails (error result or thrown) it returns the user of the cached        *)
(* session if load() yields one and nothing otherwise; when the call       *)
(* succeeds it returns the external user.                                  *)
(***************************************************************************)
C5_GetCurrentUser ==
    [][(last'.op = "getCurrentUser" /\ last'.out # "call")
         => /\ ~Has(last'.ret, "threw")
            /\ last'.out = "ok" => last'.ret = [user |-> last'.resp.data.user]
            /\ last'.out \in {"error", "throw"}
                 => LET loaded == getStoredSession(storage, window, now).ret IN
                    last'.ret = [user |-> IF loaded = Null THEN Null
                                          ELSE Some(loaded[1].user)]]_vars

\* the external call threw and the cached user was returned
C5_Witness ==
    /\ Returned("getCurrentUser")
    /\ last.out = "throw"
    /\ last.before = "usable"
    /\ last.ret.user # Null

(***************************************************************************)
(* C6: whenever signIn() or signUp() completes successfully with a         *)
(* response that contains a session, a load() right after it returns a     *)
(* session with the access token of that response.                         *)
(***************************************************************************)
C6_WriteThrough ==
    ((Returned("signIn") \/ Returned("signUp"))
       /\ last.out = "ok" /\ last.resp.data.session # Null)
    => /\ Has(last.ret, "data")
       /\ Load.ret # Null
       /\ Load.ret[1].access_token = last.resp.data.session[1].access_token

\* signUp has returned a session and load() yields it
C6_Witness ==
    /\ Returned("signUp")
    /\ last.out = "ok"
    /\ last.resp.data.session # Null
    /\ last.before = "usable"
    /\ Load.ret # Null
    /\ Load.ret[1].access_token = "a2"

(***************************************************************************)
(* C7: initializeSession(), when the external get-session call succeeds    *)
(* with no session: a refresh is attempted exactly when load() yields a    *)
(* cached session that has a refresh token, and nothing is returned when   *)
(* none is attempted; on refresh success the refreshed session is written  *)
(* to the cache and returned; on a refresh error result the cache is       *)
(* cleared and nothing is returned; when the refresh throws the cached     *)
(* session is returned and the cache is left unchanged.                    *)
(***************************************************************************)
\* the step taken is the one in which call slot p sends the refresh request
RefreshAttempted(p) == pc[p] = "initializeSession" /\ pc'[p] = "refreshSession"
\* the step taken is the one in which call slot p gets the refresh response
RefreshAnswered(p) == pc[p] = "refreshSession" /\ pc'[p] = "idle"

C7_AfterGetSession ==
    (/\ last'.op = "initializeSession"
     /\ last'.arg = [api |-> "getSession"]
     /\ last'.out = "ok"
     /\ last'.resp.data.session = Null)
    => LET loaded == getStoredSession(storage, window, now).ret IN
       \A p \in Procs :
          (pc[p] = "initializeSession" /\ pc'[p] # pc[p])
            => /\ RefreshAttempted(p) <=> (loaded # Null /\ Has(loaded[1], "refresh_token"))
               /\ RefreshAttempted(p) => stored'[p] = loaded
               /\ ~RefreshAttempted(p) => last'.ret = [session |-> Null]

C7_AfterRefresh ==
    (last'.op = "initializeSession" /\ last'.arg = [api |-> "refreshSession"])
    => \A p \in Procs :
          RefreshAnswered(p)
            => /\ (last'.out = "ok" /\ last'.resp.data.session # Null)
                    => LET after == getStoredSession(storage', window, now).ret IN
                       /\ last'.ret = [session |-> last'.resp.data.session]
                       /\ after # Null
                       /\ SameSessionFields(after[1], last'.resp.data.session[1])
               /\ last'.out = "error"
                    => CacheCleared(storage') /\ last'.ret = [session |-> Null]
               /\ last'.out = "throw"
                    => storage' = storage /\ last'.ret = [session |-> stored[p]]

C7_InitializeRefresh == [][C7_AfterGetSession /\ C7_AfterRefresh]_vars

\* the refresh threw and the cached session was returned, still cached
C7_Witness ==
    /\ Returned("initializeSession")
    /\ last.arg = [api |-> "refreshSession"]
    /\ last.out = "throw"
    /\ last.ret.session # Null
    /\ last.before = "usable"

(***************************************************************************)
(* C8: every 'signed in', 'token refreshed' or 'user updated' notification *)
(* that carries a session results in a cache write of that session, every  *)
(* 'signed out' notification in a cache clear, and any other notification  *)
(* (another event, or a write event without a session) leaves storage      *)
(* unchanged.                                                              *)
(***************************************************************************)
WriteEvents == {"SIGNED_IN", "TOKEN_REFRESHED", "USER_UPDATED"}

\* what the notification must have done to storage
Mirrored(event, session) ==
    IF event \in WriteEvents /\ session # Null
    THEN \E after \in {getStoredSession(storage', window, now).ret} :
            /\ after # Null
            /\ SameSessionFields(after[1], session[1])
            /\ after[1].saved_at = now
            /\ storage'.active # Null
    ELSE IF event = "SIGNED_OUT" THEN CacheCleared(storage')
    ELSE storage' = storage

C8_ListenerMirrors ==
    [][last'.op = "onAuthStateChange"
         => Mirrored(last'.arg.event, last'.arg.session)]_vars

\* a 'user updated' notification has written its session
C8_Witness ==
    /\ last.op = "onAuthStateChange"
    /\ last.arg.event = "USER_UPDATED"
    /\ last.arg.session # Null
    /\ Load.ret # Null
    /\ Load.ret[1].saved_at = now
    /\ now > StartMs

(***************************************************************************)
(* C9: after updateProfile() or updatePassword() succeeds with a response  *)
(* carrying a user, if load() yields a cached session the cache then holds *)
(* that session with its user replaced by the returned user and its access *)
(* token, refresh token and expiry timestamp unchanged; if load() yields   *)
(* no session, no session record is created.                               *)
(***************************************************************************)
C9_CacheMerge ==
    [][(/\ last'.op \in {"updateProfile", "updatePassword"}
        /\ last'.out = "ok"
        /\ last'.resp.data.user # Null)
       => LET loaded == getStoredSession(storage, window, now).ret
              after == getStoredSession(storage', window, now).ret
          IN  IF loaded = Null THEN storage'.session = Null
              ELSE /\ after # Null
                   /\ Get(after[1], "user") = last'.resp.data.user
                   /\ \A k \in {"access_token", "refresh_token", "expires_at"} :
                         Get(after[1], k) = Get(loaded[1], k)]_vars

\* the cached session of user u1 now carries the user u2 the update returned
C9_Witness ==
    /\ Returned("updatePassword")
    /\ last.out = "ok"
    /\ last.resp.data.user = Some("u2")
    /\ Load.ret # Null
    /\ Load.ret[1].user = "u2"
    /\ Load.ret[1].access_token = "a1"

(***************************************************************************)
(* C10: when the external call of signUp, signIn, updateProfile,           *)
(* resetPassword or updatePassword returns an error result or throws, the  *)
(* operation rejects with that same error and leaves every storage slot    *)
(* unchanged.                                                              *)
(***************************************************************************)
Rethrowing == {"signUp", "signIn", "updateProfile", "resetPassword", "updatePassword"}

C10_ErrorsPropagate ==
    [][(last'.op \in Rethrowing /\ last'.out \in {"error", "throw"})
         => (last'.ret = Threw(last'.resp.error) /\ storage' = storage)]_vars

\* updateProfile has rejected over a cache that held an expired record
C10_Witness ==
    /\ Returned("updateProfile")
    /\ last.out = "error"
    /\ Has(last.ret, "threw")
    /\ last.before = "expired"
    /\ storage.session # Null

(***************************************************************************)
(* C11: isFresh() returns true exactly when the session-active flag is     *)
(* absent from storage: true in empty storage, false right after a save()  *)
(* of a session or a markActive(), true again after clear() or signOut().  *)
(***************************************************************************)
C11_FreshIffNoFlag ==
    /\ last.op = "isFreshSession" => last.ret = [bool |-> storage.active = Null]
    /\ storage = EmptyStorage => isFreshSession(storage, window)
    /\ ((last.op = "saveSession" /\ last.arg.session # Null)
          \/ last.op = "markSessionActive") => ~isFreshSession(storage, window)
    /\ (last.op = "clearSession" \/ Returned("signOut"))
          => isFreshSession(storage, window)

\* isFresh() has answered false with the flag set by markActive() alone
C11_Witness ==
    /\ last.op = "isFreshSession"
    /\ last.ret = [bool |-> FALSE]
    /\ storage.session = Null
    /\ storage.active # Null

(***************************************************************************)
(* C12: every failure path of load() performs a clear: after any load()    *)
(* that returns no session (storage empty, record does not parse, required *)
(* fields missing, expiry passed) neither the session record nor the       *)
(* session-active flag remains in storage, also when only markActive() was *)
(* called before.                                                          *)
(***************************************************************************)
C12_EveryFailureClears ==
    (last.op = "getStoredSession" /\ last.ret.session = Null) => CacheCleared(storage)

(***************************************************************************)
(* C12 as amended: a load() that returns no session leaves no session      *)
(* record; when it found a record (one that does not parse, lacks a        *)
(* required field or has expired) it has removed all four slots; when the  *)
(* session slot was empty it has left storage as it was, the flag of an    *)
(* earlier markActive() included.                                          *)
(***************************************************************************)
C12_FailureClearsRecord ==
    [][(last'.op = "getStoredSession" /\ last'.ret.session = Null)
         => /\ storage'.session = Null
            /\ storage.session # Null => storage' = EmptyStorage
            /\ storage.session = Null => storage' = storage]_vars

\* load() on an empty session slot has kept the flag markActive() had set
C12_Witness ==
    /\ last.op = "getStoredSession"
    /\ last.before = "empty"
    /\ last.ret.session = Null
    /\ storage.active # Null

(***************************************************************************)
(* C13: expired cached data is never used: no operation hands its caller   *)
(* session data read from the cache whose expiry timestamp is past when    *)
(* the operation returns: load(), the fallbacks of getCurrentUser() and    *)
(* isAuthenticated(), and every fallback return of initializeSession(),    *)
(* the one after the refresh call threw included.                          *)
(***************************************************************************)
\* the expiry timestamp of the session object is before time t
ExpiredAt(o, t) == Has(o, "expires_at") /\ o.expires_at * MsPerSecond < t

C13_NoExpiredData ==
    [][/\ (last'.op = "getStoredSession" /\ last'.ret.session # Null)
            => ~ExpiredAt(last'.ret.session[1], now')
       /\ (last'.op = "getCurrentUser" /\ last'.out \in {"error", "throw"}
              /\ last'.ret.user # Null)
            => ~PastExpiry(storage, now')
       /\ (last'.op = "isAuthenticated" /\ last'.out = "throw" /\ last'.ret.bool)
            => ~PastExpiry(storage, now')
       /\ (last'.op = "initializeSession" /\ last'.out \in {"error", "throw"}
              /\ last'.ret.session # Null)
            => ~ExpiredAt(last'.ret.session[1], now')]_vars

(***************************************************************************)
(* C14: in every state reachable from empty storage through cache          *)
(* operations, facade operations and listener notifications, a present     *)
(* session record implies a present session-active flag and auth           *)
(* timestamp, and the flag is removed only by an action that also removes  *)
(* the session record.                                                     *)
(***************************************************************************)
C14_FlagLifecycle ==
    [][/\ storage'.session # Null
            => (storage'.active # Null /\ storage'.timestamp # Null)
       /\ (storage.active # Null /\ storage'.active = Null)
            => storage'.session = Null]_vars

(***************************************************************************)
(* C15: save(session) never throws and is a no-op whenever it cannot       *)
(* complete: if session is null, storage is unavailable or any one of its  *)
(* storage writes throws, every storage slot is exactly as it was before   *)
(* the call, with no partially written state.                              *)
(***************************************************************************)
C15_SaveAllOrNothing ==
    [][(/\ last'.op = "saveSession"
        /\ (last'.arg.session = Null \/ ~window \/ last'.out = "fault"))
         => storage' = storage]_vars

(***************************************************************************)
(* C16: updatePassword(p) is equivalent to updateProfile({password: p})    *)
(* for every password p, the empty string included: both send the same     *)
(* update request (password only, no metadata), leave the cache in the     *)
(* same state and return or reject with the same value.                    *)
(***************************************************************************)
C16_PasswordEquivalence ==
    [][/\ (last'.op = "updatePassword" /\ last'.out = "call")
            => last'.arg = updateProfileRequest([password |-> last'.arg.password], now)
       /\ (last'.op = "updatePassword" /\ last'.out \in {"ok", "error", "throw"})
            => Result(storage', last'.ret)
                 = updateProfileThen(storage, window, now, last'.resp, 0)]_vars

(***************************************************************************)
(* C17: initializeSession() never throws: for every outcome of the         *)
(* external get-session and refresh calls it returns nothing or a session; *)
(* when the get-session call fails (error result or thrown) it returns     *)
(* exactly what load() yields, and when the external session is present it *)
(* writes that session to the cache and returns it.                        *)
(***************************************************************************)
C17_InitializeNeverThrows ==
    [][(last'.op = "initializeSession" /\ last'.out # "call")
         => /\ ~Has(last'.ret, "threw")
            /\ Has(last'.ret, "session") \/ last'.ret = [pending |-> TRUE]
            /\ (last'.arg = [api |-> "getSession"] /\ last'.out \in {"error", "throw"})
                 => last'.ret = [session |-> getStoredSession(storage, window, now).ret]
            /\ (/\ last'.arg = [api |-> "getSession"]
                /\ last'.out = "ok"
                /\ last'.resp.data.session # Null)
                 => LET after == getStoredSession(storage', window, now).ret IN
                    /\ last'.ret = [session |-> last'.resp.data.session]
                    /\ after # Null
                    /\ SameSessionFields(after[1], last'.resp.data.session[1])]_vars

\* getSession returned an error result and the cached session was returned
C17_Witness ==
    /\ Returned("initializeSession")
    /\ last.arg = [api |-> "getSession"]
    /\ last.out = "error"
    /\ last.before = "usable"
    /\ last.ret.session # Null
    /\ last.ret.session = Load.ret

(***************************************************************************)
(* C18: whenever initializeSession() returns a session, the cache at that  *)
(* moment holds a session record with the same access token, under every   *)
(* interleaving of initializeSession() with signOut() calls and 'signed    *)
(* out' notifications (storage writes succeed).                            *)
(***************************************************************************)
C18_ReturnedSessionCached ==
    (/\ Returned("initializeSession")
     /\ Has(last.ret, "session")
     /\ last.ret.session # Null)
    => /\ storage.session # Null
       /\ JSONparses(storage.session[1])
       /\ Get(JSONparse(storage.session[1]), "access_token")
            = Get(last.ret.session[1], "access_token")

(***************************************************************************)
(* C19: once signOut() has returned, the session record stays absent until *)
(* an operation started after that return, or a notification delivered     *)
(* after it, writes one: the operations that were in flight when signOut() *)
(* returned do not write a session record when they complete later.        *)
(***************************************************************************)
C19_NoWriteAfterSignOut ==
    [][\A p \in stale :
          pc'[p] # pc[p]
            => (storage'.session = Null \/ storage'.session = storage.session)]_vars

(***************************************************************************)
(* C20: isAuthenticated() never throws and returns true in exactly two     *)
(* cases: the external get-session call succeeds with a session that has a *)
(* user, or that call throws and load() yields a cached session with a     *)
(* user; on an error result it returns false without reading or modifying  *)
(* the cache.                                                              *)
(***************************************************************************)
C20_IsAuthenticated ==
    [][(last'.op = "isAuthenticated" /\ last'.out # "call")
         => /\ Has(last'.ret, "bool")
            /\ last'.ret.bool
                 <=> \/ /\ last'.out = "ok"
                        /\ last'.resp.data.session # Null
                        /\ Has(last'.resp.data.session[1], "user")
                     \/ /\ last'.out = "throw"
                        /\ LET loaded == getStoredSession(storage, window, now).ret IN
                           loaded # Null /\ Has(loaded[1], "user")
            /\ last'.out = "error" => storage' = storage]_vars

\* the external call returned an error result over an expired record, which
\* is still in storage after the answer false
C20_Witness ==
    /\ Returned("isAuthenticated")
    /\ last.out = "error"
    /\ last.before = "expired"
    /\ last.ret = [bool |-> FALSE]
    /\ storage.session # Null
====
